---------------------------- MODULE Spec2Model ----------------------------
(***************************************************************************)
(* Level2ProductView (scwx-qt): sweep geometry synthesis (ComputeSweep)    *)
(* and the colour lookup table cache (UpdateColorTable).                   *)
(*                                                                         *)
(* Floats are modelled symbolically as tagged pairs:                       *)
(*   <<"zero", 0>>   a value-initialised float (vector::resize fill)       *)
(*   <<"lat", x>>, <<"lon", x>>  the origin of the volume data block       *)
(*   <<"c05", k>>, <<"c10", k>>  element k of the half-degree / one-degree *)
(*                   coordinate table returned by coordinates(radialSize)  *)
(* scale, offset and snr_threshold_raw are small integers, for which the   *)
(* single-precision arithmetic of the source is exact.  The azimuth angle  *)
(* is kept in half-degree units (azimuth2 = 2 * azimuth_angle).            *)
(***************************************************************************)
EXTENDS Integers, Sequences, FiniteSets, TLC

(***************************************************************************)
(* Program constants                                                       *)
(***************************************************************************)
VERTICES_PER_BIN == 6
VALUES_PER_VERTEX == 2
MAX_RADIALS == 720
MAX_DATA_MOMENT_GATES == 1840
HalfDegreeRadialCount == 720
GateUnit == 250

(***************************************************************************)
(* Bounds of the model                                                     *)
(***************************************************************************)
MaxRadials == 2
\* the most invocations of ComputeSweep that wait at a time
MaxPending == 2
\* the most signals a run records while LoadColorTable is called beside it
MaxSignals == 2

(***************************************************************************)
(* Fixed-width and C arithmetic                                            *)
(***************************************************************************)
U16(x) == x % 65536

\* C integer division: truncation toward zero (d > 0)
CDiv(n, d) == IF n >= 0 THEN n \div d ELSE -((-n) \div d)

\* lroundf(n / d): round half away from zero (d > 0)
LRoundDiv(n, d) == IF n >= 0 THEN (2 * n + d) \div (2 * d)
                   ELSE -((2 * (-n) + d) \div (2 * d))

Min(a, b) == IF a < b THEN a ELSE b
Max(a, b) == IF a > b THEN a ELSE b
Clamp(x, lo, hi) == Max(lo, Min(x, hi))

(***************************************************************************)
(* std::vector operations                                                  *)
(***************************************************************************)
\* vector::resize(n): keeps the first min(size, n) elements, value-fills the rest
Resize(buf, n, fill) == [k \in 1..n |-> IF k <= Len(buf) THEN buf[k] ELSE fill]

Repeat(v, n) == [k \in 1..n |-> v]

Zero == <<"zero", 0>>

(***************************************************************************)
(* Radar data: the radials GetLevel2Data returns                           *)
(***************************************************************************)
NoBlock == [present |-> FALSE]

MomentBlock(ws, sc, off, snr, rng, int, d) ==
    [present |-> TRUE, data_word_size |-> ws, scale |-> sc, offset |-> off,
     snr_threshold_raw |-> snr, data_moment_range_raw |-> rng,
     data_moment_range_sample_interval_raw |-> int,
     number_of_data_moment_gates |-> Len(d), data_moments |-> d]

Radial(az2, sp, lat, lon, t, mb) ==
    [azimuth2 |-> az2, azimuth_resolution_spacing |-> sp, volume |-> TRUE,
     latitude |-> lat, longitude |-> lon, time |-> t, moment |-> mb]

\* 8-bit, threshold 1, gates 0 and 1 (the second sample is below the threshold),
\* half-degree spacing, azimuth 359.5 (the next radial slot wraps to 0)
RadialA == Radial(719, 1, 1, 1, 1, MomentBlock(8, 1, 0, 10, 125, 250, <<2, 0>>))
\* 8-bit, own threshold lround(5 * 2 / 10 + 1) = 2, gates 1 and 2, one-degree spacing
RadialB == Radial(3, 2, 2, 2, 2, MomentBlock(8, 2, 1, 5, 375, 250, <<1, 3>>))
\* 16-bit, threshold 1, one bin of two 250 m gates starting at gate 1
RadialC == Radial(0, 2, 3, 3, 3, MomentBlock(16, 1, 0, 10, 500, 500, <<300>>))
\* 8-bit, threshold 1, a single gate at gate 1
RadialD == Radial(2, 1, 4, 4, 4, MomentBlock(8, 1, 0, 10, 375, 250, <<5>>))
\* a radial without a moment block for the product
RadialN == Radial(0, 1, 5, 5, 5, NoBlock)

\* a radial without a volume data block (volume_data_block() returns null)
RadialV == [RadialD EXCEPT !.volume = FALSE]
\* 8-bit, threshold 1, a single gate whose sample is below the threshold
RadialE == Radial(4, 1, 6, 6, 6, MomentBlock(8, 1, 0, 10, 125, 250, <<0>>))
\* 8-bit, one-degree spacing, azimuth 359: the next radial slot is 360
RadialW == Radial(718, 2, 7, 7, 7, MomentBlock(8, 1, 0, 10, 125, 250, <<2>>))
\* 8-bit, the scale of RadialB with the offset of RadialA
RadialF == Radial(0, 2, 8, 8, 8, MomentBlock(8, 2, 0, 10, 125, 250, <<3>>))
\* 8-bit, seven bins of 262 gates from gate 131: the seventh would end at gate
\* 1965, past MAX_DATA_MOMENT_GATES; only the last two samples pass the threshold
RadialG == Radial(0, 2, 9, 9, 9,
                  MomentBlock(8, 1, 0, 10, 65535, 65500, <<0, 0, 0, 0, 0, 2, 3>>))
\* 8-bit, range to the first gate below half the gate interval: the start gate
\* (0 - 500) / 250 is negative
RadialH == Radial(0, 2, 10, 10, 10, MomentBlock(8, 1, 0, 10, 0, 1000, <<2, 3>>))

RadialCatalogue == {RadialA, RadialB, RadialC, RadialD, RadialN}

RECURSIVE SeqsUpTo(_, _)
SeqsUpTo(S, n) ==
    IF n = 0 THEN {<<>>}
    ELSE LET shorter == SeqsUpTo(S, n - 1)
         IN  shorter \cup {Append(s, x) : s \in {t \in shorter : Len(t) = n - 1}, x \in S}

\* every radial sequence of at most MaxRadials radials of the catalogue
SweepInputs == SeqsUpTo(RadialCatalogue, MaxRadials)

\* the radial sequences of the colour table specification
LutInputs == {<<>>, <<RadialN>>, <<RadialA>>, <<RadialB>>, <<RadialC>>, <<RadialF>>}

\* malformed and border-line radial sequences
EdgeInputs == SeqsUpTo({RadialA, RadialE, RadialN, RadialV, RadialW}, MaxRadials)

\* radial sequences with different gate counts, gate intervals and start gates
GateInputs == SeqsUpTo({RadialA, RadialB, RadialE, RadialG, RadialH}, MaxRadials)

\* the radial sequences the manager holds when ComputeSweep is invoked
TriggerInputs == {<<>>, <<RadialA>>, <<RadialB>>, <<RadialC>>}

(***************************************************************************)
(* Products and colour tables                                              *)
(***************************************************************************)
MappedProducts == {"Reflectivity", "Velocity", "SpectrumWidth",
                   "DifferentialReflectivity", "DifferentialPhase",
                   "CorrelationCoefficient", "ClutterFilterPowerRemoved"}

\* mutant: a product without mapping is given a moment data block type
DataBlockTypeOfDefaulted(product) ==
    IF product \in MappedProducts THEN product ELSE "Reflectivity"

\* blockTypes_.find(product): Unknown when the product has no data block mapping
DataBlockTypeOf(product) ==
    IF product \in MappedProducts THEN product ELSE "Unknown"

NoTable == [present |-> FALSE]
ColorTable(id, valid, colors) ==
    [present |-> TRUE, id |-> id, valid |-> valid, colors |-> colors]

\* two instances with the same colours, one with other colours, one invalid
ColorTables == {ColorTable(1, TRUE, "P"), ColorTable(2, TRUE, "P"),
                ColorTable(3, TRUE, "Q"), ColorTable(4, FALSE, "P")}

ZeroPixel == <<"none", 0, 1>>

\* (i - offset) / scale as a fraction in lowest terms (scale is 1 or 2 here)
PhysicalValue(i, offset, scale) ==
    IF scale = 2 /\ (i - offset) % 2 = 0 THEN <<(i - offset) \div 2, 1>>
    ELSE <<i - offset, scale>>

\* ColorTable::Color(f): a function of the table's colours and of f
Color(ct, f) == <<ct.colors, f[1], f[2]>>


(***************************************************************************)
(* ComputeSweep: values derived from the radial sequence                   *)
(***************************************************************************)
\* radialSize: half-degree table only for a sweep of exactly 720 radials
CoordinateTableOf(data) ==
    IF Len(data) = HalfDegreeRadialCount THEN "c05" ELSE "c10"

\* size of the vertex buffer set up before the loop
VertexCapacity(data) ==
    Len(data) * data[1].moment.number_of_data_moment_gates
        * VERTICES_PER_BIN * VALUES_PER_VERTEX

\* size of the data moment buffer set up before the loop
MomentCapacity(data) ==
    Len(data) * data[1].moment.number_of_data_moment_gates * VERTICES_PER_BIN

\* mutant: the offset is left out of the threshold
SnrThresholdOfNoOffset(mb) ==
    U16(LRoundDiv(mb.snr_threshold_raw * mb.scale, 10))

\* snrThreshold, computed once from the moment block of the first radial
SnrThresholdOf(mb) ==
    U16(LRoundDiv(mb.snr_threshold_raw * mb.scale + 10 * mb.offset, 10))

\* radialMultiplier = 2.0f / clamp(azimuth_resolution_spacing, 1, 2)
RadialMultiplier(r0) ==
    IF Clamp(r0.azimuth_resolution_spacing, 1, 2) = 1 THEN 2 ELSE 1

\* startRadial = lroundf(startAngle * radialMultiplier)
StartRadial(r0) == U16(LRoundDiv(r0.azimuth2 * RadialMultiplier(r0), 2))

GateSizeOf(mb) ==
    U16(Max(1, CDiv(mb.data_moment_range_sample_interval_raw, GateUnit)))

StartGateOf(mb) ==
    U16(CDiv(mb.data_moment_range_raw
                - CDiv(mb.data_moment_range_sample_interval_raw, 2), GateUnit))

\* mutant: the gate count of the radial is not limited to the first radial's
NumberOfGatesOwn(mb, gates) == U16(mb.number_of_data_moment_gates)

\* mutant: every radial is read with the gate count of the first radial
NumberOfGatesFirst(mb, gates) == U16(gates)

\* min<uint16_t>(own gate count, gate count of the first radial)
NumberOfGates(mb, gates) ==
    Min(U16(mb.number_of_data_moment_gates), U16(gates))

EndGateOf(mb, gates) ==
    Min(U16(StartGateOf(mb) + NumberOfGates(mb, gates) * GateSizeOf(mb)),
        U16(MAX_DATA_MOMENT_GATES))

\* mutant: every bin counts 6 vertices
VertexCountSix(gate) == 6

\* size_t vertexCount = (gate > 0) ? 6 : 3
VertexCount(gate) == IF gate > 0 THEN 6 ELSE 3

\* base offset into the coordinate table of (radial slot, gate)
CoordOffset(slot, baseCoord) ==
    ((slot % MAX_RADIALS) * MAX_DATA_MOMENT_GATES + baseCoord) * 2

Pair(table, off) == << <<table, off>>, <<table, off + 1>> >>

\* mutant: the second triangle is drawn around the other diagonal
BinVerticesOtherDiagonal(table, startRadial, radial, gate, gateSize, lat, lon) ==
    IF gate > 0
    THEN LET baseCoord == U16(gate - 1)
             offset1 == CoordOffset(startRadial + radial, baseCoord)
             offset2 == offset1 + gateSize * 2
             offset3 == CoordOffset(startRadial + radial + 1, baseCoord)
             offset4 == offset3 + gateSize * 2
         IN  Pair(table, offset1) \o Pair(table, offset2) \o Pair(table, offset3)
               \o Pair(table, offset1) \o Pair(table, offset3) \o Pair(table, offset4)
    ELSE << <<"lat", lat>>, <<"lon", lon>> >>
           \o Pair(table, CoordOffset(startRadial + radial, gate))
           \o Pair(table, CoordOffset(startRadial + radial + 1, gate))

\* the floats one rendered bin stores in the vertex buffer
BinVertices(table, startRadial, radial, gate, gateSize, lat, lon) ==
    IF gate > 0
    THEN LET baseCoord == U16(gate - 1)
             offset1 == CoordOffset(startRadial + radial, baseCoord)
             offset2 == offset1 + gateSize * 2
             offset3 == CoordOffset(startRadial + radial + 1, baseCoord)
             offset4 == offset3 + gateSize * 2
         IN  Pair(table, offset1) \o Pair(table, offset2) \o Pair(table, offset3)
               \o Pair(table, offset3) \o Pair(table, offset4) \o Pair(table, offset2)
    ELSE LET baseCoord == gate
             offset1 == CoordOffset(startRadial + radial, baseCoord)
             offset2 == CoordOffset(startRadial + radial + 1, baseCoord)
         IN  << <<"lat", lat>>, <<"lon", lon>> >>
               \o Pair(table, offset1) \o Pair(table, offset2)

\* buf[idx++] = vals[1], buf[idx++] = vals[2], ...: stores inside the buffer
WriteAt(buf, idx, vals) ==
    [k \in 1..Len(buf) |->
        IF k > idx /\ k <= idx + Len(vals) THEN vals[k - idx] ELSE buf[k]]

\* whether a store of n elements at idx stays inside the buffer
WriteFits(buf, idx, n) == idx + n <= Len(buf)

(***************************************************************************)
(* The loop state: [v, m, vIndex, mIndex, overflow, bins, misread]         *)
(*   v, m        vertex buffer and data moment buffer (8 or 16 bit)        *)
(*   overflow    a store went past the end of a buffer                     *)
(*   misread     a sample was read past the end of a radial's data moments *)
(*   bins        log of the rendered bins                                  *)
(***************************************************************************)
\* one rendered bin: the data moment values, then the vertices
StoreBin(st, verts, sample, radial, gate, i) ==
    LET count == VertexCount(gate)
    IN  [v |-> WriteAt(st.v, st.vIndex, verts),
         m |-> WriteAt(st.m, st.mIndex, Repeat(sample, count)),
         vIndex |-> st.vIndex + Len(verts),
         mIndex |-> st.mIndex + count,
         misread |-> st.misread,
         overflow |-> st.overflow
                        \/ ~WriteFits(st.v, st.vIndex, Len(verts))
                        \/ ~WriteFits(st.m, st.mIndex, count),
         bins |-> Append(st.bins,
                     [radial |-> radial, gate |-> gate, i |-> i, sample |-> sample,
                      vAt |-> st.vIndex, vLen |-> Len(verts),
                      mAt |-> st.mIndex, mLen |-> count])]

\* what a read past the end of a radial's data moments is taken to return
PastTheEnd == 255

\* whether the bin is skipped: dataValue < snrThreshold
BelowThreshold(sample, snrThreshold) == sample < snrThreshold

\* mutant: the loop goes on while the bin starts before endGate
GateInRangeByStart(gate, gateSize, endGate) == gate < endGate

\* the condition of the gate loop: the whole bin lies before endGate
GateInRange(gate, gateSize, endGate) == gate + gateSize <= endGate

\* for (gate = startGate, i = 0; gate + gateSize <= endGate; gate += gateSize, ++i)
RECURSIVE GateLoop(_, _, _, _)
GateLoop(st, c, gate, i) ==
    IF ~GateInRange(gate, c.gateSize, c.endGate) THEN st
    ELSE LET inside == i < Len(c.data)
             \* dataMomentsArray[i]: past the end of the data moments the
             \* value is whatever follows them in memory (flagged in misread)
             sample == IF inside THEN c.data[i + 1] ELSE PastTheEnd
             read == [st EXCEPT !.misread = st.misread \/ ~inside]
             next == IF BelowThreshold(sample, c.snrThreshold) THEN read
                     ELSE StoreBin(read,
                             BinVertices(c.table, c.startRadial, c.radial, gate,
                                         c.gateSize, c.lat, c.lon),
                             sample, c.radial, gate, i)
         IN  GateLoop(next, c, U16(gate + c.gateSize), U16(i + 1))

\* mutant: a radial of another word size is not skipped
WordSizeDiffersNever(mb0, mb) == FALSE

\* whether the radial is skipped: its word size differs from the first radial's
WordSizeDiffers(mb0, mb) == mb0.data_word_size # mb.data_word_size

\* body of the radial loop for radial index `radial` (0-based)
RadialBody(st, data, radial, lat, lon) ==
    LET mb0 == data[1].moment
        mb == data[radial + 1].moment
        c == [table |-> CoordinateTableOf(data),
              startRadial |-> StartRadial(data[1]),
              radial |-> radial,
              gateSize |-> GateSizeOf(mb),
              endGate |-> EndGateOf(mb, mb0.number_of_data_moment_gates),
              data |-> mb.data_moments,
              snrThreshold |-> SnrThresholdOf(mb0),
              lat |-> lat, lon |-> lon]
    IN  IF WordSizeDiffers(mb0, mb) THEN st
        ELSE GateLoop(st, c, StartGateOf(mb), 0)


(***************************************************************************)
(* UpdateColorTable: the lookup table and its key                          *)
(***************************************************************************)
RangeMin(product) ==
    CASE product = "DifferentialReflectivity" -> 2
      [] product = "DifferentialPhase" -> 2
      [] product = "ClutterFilterPowerRemoved" -> 8
      [] OTHER -> 2

\* mutant: every product is given the range of the default
RangeMaxDefault(product) == 255

RangeMax(product) ==
    CASE product = "DifferentialReflectivity" -> 1058
      [] product = "DifferentialPhase" -> 1023
      [] product = "ClutterFilterPowerRemoved" -> 81
      [] OTHER -> 255

\* boost::irange<uint16_t>(rangeMin, rangeMax): the raw indices the loop visits
DataRange(product) == RangeMin(product)..(RangeMax(product) - 1)

\* lut.resize(rangeMax - rangeMin + 1), then the loop over dataRange
BuildLut(lut, ct, offset, scale, product) ==
    LET resized == Resize(lut, RangeMax(product) - RangeMin(product) + 1, ZeroPixel)
    IN  [k \in 1..Len(resized) |->
            IF (RangeMin(product) + k - 1) \in DataRange(product)
            THEN Color(ct, PhysicalValue(RangeMin(product) + k - 1, offset, scale))
            ELSE resized[k]]

\* savedScale_ and savedOffset_ have no initialiser: <<>> is the indeterminate
\* value, <<x>> the value x
Indeterminate == <<>>

\* mutant: the key is never found unchanged
CacheMissAlways(sct, sof, ssc, ct, offset, scale) == {FALSE}

\* mutant: colour tables are compared by their colours, not by instance
CacheHitByColours(sct, sof, ssc, ct, offset, scale) ==
    IF ~sct.present \/ sct.colors # ct.colors THEN {FALSE}
    ELSE {sof = <<offset>> /\ ssc = <<scale>>}

\* mutant: the scale is not part of the comparison
CacheHitScaleIgnored(sct, sof, ssc, ct, offset, scale) ==
    IF sct # ct THEN {FALSE}
    ELSE IF sof = Indeterminate THEN {TRUE, FALSE}
    ELSE {sof = <<offset>>}

\* outcomes of savedColorTable_ == colorTable_ && savedOffset_ == offset &&
\* savedScale_ == scale (a comparison that reads an indeterminate float may go
\* either way; && does not read it when the tables differ)
CacheHitOutcomes(sct, sof, ssc, ct, offset, scale) ==
    IF sct # ct THEN {FALSE}
    ELSE IF sof = Indeterminate THEN {TRUE, FALSE}
    ELSE IF sof # <<offset>> THEN {FALSE}
    ELSE IF ssc = Indeterminate THEN {TRUE, FALSE}
    ELSE {ssc = <<scale>>}

\* mutant: the validity of the colour table is not asked for
NothingToUpdateValidityIgnored(mdb0, ct) == ~mdb0.present \/ ~ct.present

\* the guard of UpdateColorTable: nothing to update
NothingToUpdate(mdb0, ct) == ~mdb0.present \/ ~ct.present \/ ~ct.valid

(***************************************************************************)
(* State                                                                   *)
(***************************************************************************)
VARIABLES
    product_,            \* Level2ProductViewImpl::product_
    momentDataBlock0_,   \* moment block of the first radial of the last run
    vertices_,
    dataMoments8_,
    dataMoments16_,
    latitude_,
    longitude_,
    sweepTime_,
    colorTable_,
    colorTableLut_,
    savedColorTable_,
    savedScale_,
    savedOffset_,
    radarData,           \* what GetLevel2Data(dataBlockType_, 0) returns
    pc,                  \* position of ComputeSweep: idle, compute, loop, lut
                         \* (lut_fill, lut_fill2, lut_save inside UpdateColorTable
                         \* when it is taken step by step), fault
    radial,              \* loop counter of the radial loop
    vIndex,
    mIndex,
    signals,             \* signals emitted by the operation under way
    op,                  \* the operation started last
    prev,                \* what the view held when that operation started
    obs,                 \* what a rendering consumer read last
    overflow,            \* a store of the run went past the end of a buffer
    bins,                \* log of the bins the run rendered
    misread,             \* a sample of the run was read past the end of its data
    pending,             \* invocations of ComputeSweep signalled and not yet begun
    radarSite_,          \* TimelineManager::Impl::radarSite_
    previousRadarSite_,
    pinnedTime_,
    adjustedTime_,
    selectedTime_,
    viewType_,
    loopTime_,
    animationState_,
    animationTimer_,     \* "none", or "waiting" while an async_wait is outstanding
    selectTimeMutex_,    \* TRUE while a task holds the mutex
    tasks,               \* the tasks handed to scwx::util::async and the timer
                         \* handlers, not yet finished
    now,                 \* std::chrono::system_clock::now()
    emitted,             \* the signals the last step of the manager emitted
    lastSelectedTimeUpdated,  \* argument of the last SelectedTimeUpdated
    requested,           \* the date and time of the last SetDateTime, if no other
                         \* call of SelectTime came after it
    call,                \* time and radar site of the last call of SelectTime
    callMade,            \* the last step was a call of SelectTime
    playStep,            \* what the last Play task computed and selected
    paused               \* Pause took effect and the user has not played since

viewVars == <<product_, momentDataBlock0_, vertices_, dataMoments8_, dataMoments16_,
              latitude_, longitude_, sweepTime_, colorTable_, colorTableLut_,
              savedColorTable_, savedScale_, savedOffset_>>
runVars == <<radarData, pc, radial, vIndex, mIndex, signals, op, prev, obs,
             overflow, bins, misread, pending>>
timelineVars == <<radarSite_, previousRadarSite_, pinnedTime_, adjustedTime_,
                  selectedTime_, viewType_, loopTime_, animationState_,
                  animationTimer_, selectTimeMutex_, tasks, now>>
timelineGhosts == <<emitted, lastSelectedTimeUpdated, requested, call, callMade,
                    playStep, paused>>
tmVars == <<timelineVars, timelineGhosts>>
vars == <<viewVars, runVars, tmVars>>

\* std::chrono::system_clock::time_point {}: the default time, "live"
DefaultTime == 0
\* no time: a null element pointer, nothing requested yet
NoTime == 0 - 1
\* one minute, in units of half a minute
Minute == 2
\* the clock when the manager is constructed, minute-aligned
NowStart == 100
NoCall == [present |-> FALSE]
NoPlayStep == [present |-> FALSE]

\* TimelineManager::Impl after construction
InitTimeline ==
    /\ radarSite_ = "?"
    /\ previousRadarSite_ = "?"
    /\ pinnedTime_ = DefaultTime
    /\ adjustedTime_ = DefaultTime
    /\ selectedTime_ = DefaultTime
    /\ viewType_ = "Live"
    /\ loopTime_ = 30 * Minute
    /\ animationState_ = "Pause"
    /\ animationTimer_ = "none"
    /\ selectTimeMutex_ = FALSE
    /\ tasks = <<>>
    /\ now = NowStart
    /\ emitted = <<>>
    /\ lastSelectedTimeUpdated = NoTime
    /\ requested = NoTime
    /\ call = NoCall
    /\ callMade = FALSE
    /\ playStep = NoPlayStep
    /\ paused = FALSE

NoObs == [present |-> FALSE]

\* what the accessors sweep_time(), vertices(), GetMomentData(), color_table()
\* and the origin expose
Held ==
    [vertices |-> vertices_, m8 |-> dataMoments8_, m16 |-> dataMoments16_,
     latitude |-> latitude_, longitude |-> longitude_, sweepTime |-> sweepTime_,
     lut |-> colorTableLut_]

\* GetMomentData(): the 8-bit buffer when it is not empty, else the 16-bit one
GetMomentData ==
    IF Len(dataMoments8_) > 0
    THEN [data |-> dataMoments8_, componentSize |-> 1]
    ELSE [data |-> dataMoments16_, componentSize |-> 2]

\* what RadarProductView::color_table() returns: the table of the base class
BaseColorTable == <<<<"base", 0, 0>>>>

\* color_table(): the lookup table, or the table of the base class while the
\* lookup table is empty
color_table == IF Len(colorTableLut_) = 0 THEN BaseColorTable ELSE colorTableLut_

ViewProducts == {"Reflectivity", "ClutterFilterPowerRemoved", "Unknown"}

\* the view after construction
InitView(products) ==
    /\ product_ \in products
    /\ momentDataBlock0_ = NoBlock
    /\ vertices_ = <<>>
    /\ dataMoments8_ = <<>>
    /\ dataMoments16_ = <<>>
    /\ latitude_ = 0
    /\ longitude_ = 0
    /\ sweepTime_ = 0
    /\ colorTable_ = NoTable
    /\ colorTableLut_ = <<>>
    /\ savedColorTable_ = NoTable
    /\ savedScale_ = Indeterminate
    /\ savedOffset_ = Indeterminate
    /\ radarData = <<>>
    /\ pc = "idle"
    /\ radial = 0
    /\ vIndex = 0
    /\ mIndex = 0
    /\ signals = <<>>
    /\ op = "none"
    /\ prev = Held
    /\ obs = NoObs
    /\ overflow = FALSE
    /\ bins = <<>>
    /\ misread = FALSE
    /\ pending = 0
    /\ InitTimeline

Init == InitView(ViewProducts)

(***************************************************************************)
(* Operations                                                              *)
(***************************************************************************)
\* mutant: the signal overtakes the signals emitted before it
EmitAhead(sig, s) == <<s>> \o sig

\* emit s: the connections deliver the signals in the order of their emission
Emit(sig, s) == Append(sig, s)

\* UpdateColorTable() with colour table ct loaded; sig: the signals emitted so far
UpdateColorTable(ct, sig) ==
    IF NothingToUpdate(momentDataBlock0_, ct)
    THEN /\ UNCHANGED <<colorTableLut_, savedColorTable_, savedScale_, savedOffset_>>
         /\ signals' = sig
    ELSE LET offset == momentDataBlock0_.offset
             scale == momentDataBlock0_.scale
         IN  \E hit \in CacheHitOutcomes(savedColorTable_, savedOffset_,
                                         savedScale_, ct, offset, scale) :
                IF hit
                THEN /\ UNCHANGED <<colorTableLut_, savedColorTable_,
                                    savedScale_, savedOffset_>>
                     /\ signals' = sig
                ELSE /\ colorTableLut_' =
                            BuildLut(colorTableLut_, ct, offset, scale, product_)
                     /\ savedColorTable_' = ct
                     /\ savedOffset_' = <<offset>>
                     /\ savedScale_' = <<scale>>
                     /\ signals' = Emit(sig, "ColorTableUpdated")

\* LoadColorTable(colorTable), called while no ComputeSweep is under way
LoadColorTable(ct) ==
    /\ UNCHANGED tmVars
    /\ pc = "idle"
    /\ colorTable_' = ct
    /\ UpdateColorTable(ct, <<>>)
    /\ op' = "LoadColorTable"
    /\ prev' = Held
    /\ obs' = NoObs
    /\ UNCHANGED <<product_, momentDataBlock0_, vertices_, dataMoments8_,
                   dataMoments16_, latitude_, longitude_, sweepTime_>>
    /\ UNCHANGED <<radarData, pc, radial, vIndex, mIndex, overflow, bins, pending, misread>>

\* ComputeSweep is entered; GetLevel2Data returns one of inputs
EnterComputeSweep(inputs) ==
    /\ pc = "idle"
    /\ \E d \in inputs : radarData' = d
    /\ pc' = "compute"
    /\ radial' = 0
    /\ vIndex' = 0
    /\ mIndex' = 0
    /\ signals' = <<>>
    /\ op' = "ComputeSweep"
    /\ prev' = Held
    /\ obs' = NoObs
    /\ overflow' = FALSE
    /\ bins' = <<>>
    /\ misread' = FALSE
    /\ UNCHANGED viewVars

\* RadarProductManager emits Level2DataLoaded with new data while the view is
\* at rest: ComputeSweep starts
Level2DataLoaded(inputs) ==
    /\ UNCHANGED tmVars
    /\ EnterComputeSweep(inputs)
    /\ UNCHANGED pending

\* ComputeSweep up to the radial loop: the early returns, the origin and the
\* sweep time, the set-up of the buffers
CS_Begin ==
    /\ UNCHANGED tmVars
    /\ pc = "compute"
    /\ obs' = NoObs
    /\ UNCHANGED <<product_, colorTable_, colorTableLut_, savedColorTable_,
                   savedScale_, savedOffset_>>
    /\ UNCHANGED <<radarData, radial, vIndex, mIndex, signals, op, prev,
                   overflow, bins, pending, misread>>
    /\ IF DataBlockTypeOf(product_) = "Unknown" \/ Len(radarData) = 0
       THEN /\ pc' = "idle"
            /\ UNCHANGED <<momentDataBlock0_, vertices_, dataMoments8_,
                           dataMoments16_, latitude_, longitude_, sweepTime_>>
       ELSE /\ momentDataBlock0_' = radarData[1].moment
            /\ IF ~radarData[1].moment.present
               THEN /\ pc' = "idle"
                    /\ UNCHANGED <<vertices_, dataMoments8_, dataMoments16_,
                                   latitude_, longitude_, sweepTime_>>
               ELSE IF ~radarData[1].volume
               THEN \* volumeData0 is null: volumeData0->latitude() faults
                    /\ pc' = "fault"
                    /\ UNCHANGED <<vertices_, dataMoments8_, dataMoments16_,
                                   latitude_, longitude_, sweepTime_>>
               ELSE /\ latitude_' = radarData[1].latitude
                    /\ longitude_' = radarData[1].longitude
                    /\ sweepTime_' = radarData[1].time
                    /\ vertices_' = Resize(<<>>, VertexCapacity(radarData), Zero)
                    /\ IF radarData[1].moment.data_word_size = 8
                       THEN /\ dataMoments16_' = <<>>
                            /\ dataMoments8_' =
                                 Resize(dataMoments8_, MomentCapacity(radarData), 0)
                       ELSE /\ dataMoments8_' = <<>>
                            /\ dataMoments16_' =
                                 Resize(dataMoments16_, MomentCapacity(radarData), 0)
                    /\ pc' = "loop"

\* the loop state before the next radial
LoopState ==
    [v |-> vertices_,
     m |-> IF momentDataBlock0_.data_word_size = 8 THEN dataMoments8_
           ELSE dataMoments16_,
     vIndex |-> vIndex, mIndex |-> mIndex, overflow |-> overflow, bins |-> bins,
     misread |-> misread]

\* one iteration of the radial loop
CS_Radial ==
    /\ UNCHANGED tmVars
    /\ pc = "loop"
    /\ radial < Len(radarData)
    /\ obs' = NoObs
    /\ UNCHANGED <<product_, momentDataBlock0_, latitude_, longitude_, sweepTime_,
                   colorTable_, colorTableLut_, savedColorTable_, savedScale_,
                   savedOffset_>>
    /\ UNCHANGED <<radarData, signals, op, prev, pending>>
    /\ IF ~radarData[radial + 1].moment.present
       THEN \* momentData is null: momentData->data_word_size() faults
            /\ pc' = "fault"
            /\ UNCHANGED <<vertices_, dataMoments8_, dataMoments16_, radial,
                           vIndex, mIndex, overflow, bins, misread>>
       ELSE LET st == RadialBody(LoopState, radarData, radial, latitude_, longitude_)
            IN  /\ vertices_' = st.v
                /\ IF momentDataBlock0_.data_word_size = 8
                   THEN dataMoments8_' = st.m /\ UNCHANGED dataMoments16_
                   ELSE dataMoments16_' = st.m /\ UNCHANGED dataMoments8_
                /\ vIndex' = st.vIndex
                /\ mIndex' = st.mIndex
                /\ overflow' = st.overflow
                /\ misread' = st.misread
                /\ bins' = st.bins
                /\ radial' = U16(radial + 1)
                /\ pc' = "loop"

\* mutant: the buffers are not cut after the loop
FinalLengthCapacity(buf, index) == Len(buf)

\* the length the buffers are cut to after the loop
FinalLength(buf, index) == index

\* after the loop: both buffers are cut to what was written, SweepComputed
CS_Finish ==
    /\ UNCHANGED tmVars
    /\ pc = "loop"
    /\ ~(radial < Len(radarData))
    /\ vertices_' = Resize(vertices_, FinalLength(vertices_, vIndex), Zero)
    /\ IF momentDataBlock0_.data_word_size = 8
       THEN /\ dataMoments8_' =
                 Resize(dataMoments8_, FinalLength(dataMoments8_, mIndex), 0)
            /\ UNCHANGED dataMoments16_
       ELSE /\ dataMoments16_' =
                 Resize(dataMoments16_, FinalLength(dataMoments16_, mIndex), 0)
            /\ UNCHANGED dataMoments8_
    /\ signals' = Emit(signals, "SweepComputed")
    /\ pc' = "lut"
    /\ obs' = NoObs
    /\ UNCHANGED <<product_, momentDataBlock0_, latitude_, longitude_, sweepTime_,
                   colorTable_, colorTableLut_, savedColorTable_, savedScale_,
                   savedOffset_>>
    /\ UNCHANGED <<radarData, radial, vIndex, mIndex, op, prev, overflow, bins,
                   pending, misread>>

\* the call of UpdateColorTable that ends ComputeSweep
CS_UpdateColorTable ==
    /\ UNCHANGED tmVars
    /\ pc = "lut"
    /\ UpdateColorTable(colorTable_, signals)
    /\ pc' = "idle"
    /\ obs' = NoObs
    /\ UNCHANGED <<product_, momentDataBlock0_, vertices_, dataMoments8_,
                   dataMoments16_, latitude_, longitude_, sweepTime_, colorTable_>>
    /\ UNCHANGED <<radarData, radial, vIndex, mIndex, op, prev, overflow, bins,
                   pending, misread>>

\* a rendering consumer calls vertices() and GetMomentData()
Read ==
    /\ UNCHANGED tmVars
    /\ pc # "fault"
    /\ obs' = [present |-> TRUE, vertices |-> vertices_, moments |-> GetMomentData]
    /\ UNCHANGED viewVars
    /\ UNCHANGED <<radarData, pc, radial, vIndex, mIndex, signals, op, prev,
                   overflow, bins, pending, misread>>

ComputeSweepStep == CS_Begin \/ CS_Radial \/ CS_Finish \/ CS_UpdateColorTable

\* the colour table cache: short radial sequences, every colour table
Next ==
    \/ Level2DataLoaded(LutInputs)
    \/ \E ct \in ColorTables \cup {NoTable} : LoadColorTable(ct)
    \/ CS_Begin
    \/ CS_Radial
    \/ CS_Finish
    \/ CS_UpdateColorTable

Spec == Init /\ [][Next]_vars

\* the synthesis: every radial sequence of the catalogue, a concurrent reader
NextSweep ==
    \/ Level2DataLoaded(SweepInputs)
    \/ CS_Begin
    \/ CS_Radial
    \/ CS_Finish
    \/ CS_UpdateColorTable
    \/ Read

SpecSweep == InitView({"Reflectivity"}) /\ [][NextSweep]_vars

\* the colour table cache of every product
KindProducts == {"Reflectivity", "Velocity", "DifferentialReflectivity",
                 "DifferentialPhase", "ClutterFilterPowerRemoved"}

\* radial sequences of different word size, scale and offset
KindInputs == {<<RadialA>>, <<RadialB>>, <<RadialC>>}

NextKinds ==
    \/ Level2DataLoaded(KindInputs)
    \/ \E ct \in ColorTables \cup {NoTable} : LoadColorTable(ct)
    \/ CS_Begin
    \/ CS_Radial
    \/ CS_Finish
    \/ CS_UpdateColorTable

SpecKinds == InitView(KindProducts) /\ [][NextKinds]_vars

\* the synthesis of malformed and border-line radial sequences
NextEdge ==
    \/ Level2DataLoaded(EdgeInputs)
    \/ CS_Begin
    \/ CS_Radial
    \/ CS_Finish
    \/ CS_UpdateColorTable

SpecEdge == InitView({"Reflectivity"}) /\ [][NextEdge]_vars

\* the gate loop over radials of different gate geometry
NextGates ==
    \/ Level2DataLoaded(GateInputs)
    \/ CS_Begin
    \/ CS_Radial
    \/ CS_Finish
    \/ CS_UpdateColorTable

SpecGates == InitView({"Reflectivity"}) /\ [][NextGates]_vars

(***************************************************************************)
(* New-data signals that arrive at any time                                *)
(***************************************************************************)
\* RadarProductManager emits Level2DataLoaded: the connection made in the
\* constructor invokes ComputeSweep once for each emission
Trigger ==
    /\ UNCHANGED tmVars
    /\ pc # "fault"
    /\ pending < MaxPending
    /\ pending' = pending + 1
    /\ UNCHANGED viewVars
    /\ UNCHANGED <<radarData, pc, radial, vIndex, mIndex, signals, op, prev, obs,
                   overflow, bins, misread>>

\* an invocation that waited begins: ComputeSweep reads the data the manager
\* holds by then
Dispatch(inputs) ==
    /\ UNCHANGED tmVars
    /\ pending > 0
    /\ pending' = pending - 1
    /\ EnterComputeSweep(inputs)

NextTrigger ==
    \/ Trigger
    \/ Dispatch(TriggerInputs)
    \/ CS_Begin
    \/ CS_Radial
    \/ CS_Finish
    \/ CS_UpdateColorTable

SpecTrigger == InitView({"Reflectivity"}) /\ [][NextTrigger]_vars

(***************************************************************************)
(* UpdateColorTable step by step, with LoadColorTable and color_table()    *)
(* called from other threads                                               *)
(***************************************************************************)
\* the positions of ComputeSweep inside its call of UpdateColorTable
LutPhases == {"lut", "lut_fill", "lut_fill2", "lut_save"}

\* the raw indices one part of the parallel loop visits
LowerPart(product) ==
    {i \in DataRange(product) : 2 * i < RangeMin(product) + RangeMax(product)}
UpperPart(product) == DataRange(product) \ LowerPart(product)

\* the loop body over the raw indices of `indices`
FillLut(lut, ct, offset, scale, product, indices) ==
    [k \in 1..Len(lut) |->
        IF (RangeMin(product) + k - 1) \in indices
        THEN Color(ct, PhysicalValue(RangeMin(product) + k - 1, offset, scale))
        ELSE lut[k]]

\* UpdateColorTable up to lut.resize
UCT_Enter ==
    /\ UNCHANGED tmVars
    /\ pc = "lut"
    /\ IF NothingToUpdate(momentDataBlock0_, colorTable_)
       THEN /\ pc' = "idle"
            /\ UNCHANGED colorTableLut_
       ELSE \E hit \in CacheHitOutcomes(savedColorTable_, savedOffset_, savedScale_,
                                        colorTable_, momentDataBlock0_.offset,
                                        momentDataBlock0_.scale) :
                IF hit
                THEN /\ pc' = "idle"
                     /\ UNCHANGED colorTableLut_
                ELSE /\ colorTableLut_' =
                          Resize(colorTableLut_,
                                 RangeMax(product_) - RangeMin(product_) + 1, ZeroPixel)
                     /\ pc' = "lut_fill"
    /\ obs' = NoObs
    /\ UNCHANGED <<product_, momentDataBlock0_, vertices_, dataMoments8_,
                   dataMoments16_, latitude_, longitude_, sweepTime_, colorTable_,
                   savedColorTable_, savedScale_, savedOffset_>>
    /\ UNCHANGED <<radarData, radial, vIndex, mIndex, signals, op, prev, overflow,
                   bins, pending, misread>>

\* one part of the loop: every iteration reads p->colorTable_
UCT_Fill ==
    /\ UNCHANGED tmVars
    /\ pc \in {"lut_fill", "lut_fill2"}
    /\ IF ~colorTable_.present
       THEN \* p->colorTable_ is null: p->colorTable_->Color(f) faults
            /\ pc' = "fault"
            /\ UNCHANGED colorTableLut_
       ELSE /\ colorTableLut_' =
                 FillLut(colorTableLut_, colorTable_, momentDataBlock0_.offset,
                         momentDataBlock0_.scale, product_,
                         IF pc = "lut_fill" THEN LowerPart(product_)
                         ELSE UpperPart(product_))
            /\ pc' = IF pc = "lut_fill" THEN "lut_fill2" ELSE "lut_save"
    /\ obs' = NoObs
    /\ UNCHANGED <<product_, momentDataBlock0_, vertices_, dataMoments8_,
                   dataMoments16_, latitude_, longitude_, sweepTime_, colorTable_,
                   savedColorTable_, savedScale_, savedOffset_>>
    /\ UNCHANGED <<radarData, radial, vIndex, mIndex, signals, op, prev, overflow,
                   bins, pending, misread>>

\* the key is saved and ColorTableUpdated emitted
UCT_Save ==
    /\ UNCHANGED tmVars
    /\ pc = "lut_save"
    /\ savedColorTable_' = colorTable_
    /\ savedOffset_' = <<momentDataBlock0_.offset>>
    /\ savedScale_' = <<momentDataBlock0_.scale>>
    /\ signals' = Emit(signals, "ColorTableUpdated")
    /\ pc' = "idle"
    /\ obs' = NoObs
    /\ UNCHANGED <<product_, momentDataBlock0_, vertices_, dataMoments8_,
                   dataMoments16_, latitude_, longitude_, sweepTime_, colorTable_,
                   colorTableLut_>>
    /\ UNCHANGED <<radarData, radial, vIndex, mIndex, op, prev, overflow, bins,
                   pending, misread>>

\* LoadColorTable(colorTable) called while ComputeSweep is inside UpdateColorTable
ConcurrentLoadColorTable(ct) ==
    /\ UNCHANGED tmVars
    /\ pc \in LutPhases
    /\ Len(signals) < MaxSignals
    /\ colorTable_' = ct
    /\ UpdateColorTable(ct, signals)
    /\ obs' = NoObs
    /\ UNCHANGED <<product_, momentDataBlock0_, vertices_, dataMoments8_,
                   dataMoments16_, latitude_, longitude_, sweepTime_>>
    /\ UNCHANGED <<radarData, pc, radial, vIndex, mIndex, op, prev, overflow, bins,
                   pending, misread>>

\* a consumer calls color_table()
ReadColorTable ==
    /\ UNCHANGED tmVars
    /\ pc # "fault"
    /\ obs' = [present |-> TRUE, lut |-> color_table]
    /\ UNCHANGED viewVars
    /\ UNCHANGED <<radarData, pc, radial, vIndex, mIndex, signals, op, prev,
                   overflow, bins, pending, misread>>

\* the radial sequences of the specification of the concurrent colour table
RaceInputs == {<<RadialA>>, <<RadialB>>}

NextRace ==
    \/ Level2DataLoaded(RaceInputs)
    \/ \E ct \in ColorTables : LoadColorTable(ct)
    \/ CS_Begin
    \/ CS_Radial
    \/ CS_Finish
    \/ UCT_Enter
    \/ UCT_Fill
    \/ UCT_Save
    \/ \E ct \in ColorTables \cup {NoTable} : ConcurrentLoadColorTable(ct)
    \/ ReadColorTable

SpecRace == InitView({"ClutterFilterPowerRemoved"}) /\ [][NextRace]_vars


(***************************************************************************)
(* Reference runs, for the properties below                                *)
(***************************************************************************)
\* the run is a no-op: no data block mapping, no radials, or no moment block
\* in the first radial
NoOpInput(product, data) ==
    \/ product \notin MappedProducts
    \/ Len(data) = 0
    \/ ~data[1].moment.present

\* the run reaches the end of the synthesis loop
Synthesizes(product, data) ==
    /\ ~NoOpInput(product, data)
    /\ data[1].volume
    /\ \A r \in 1..Len(data) : data[r].moment.present

RECURSIVE RadialLoopFrom(_, _, _, _)
RadialLoopFrom(st, data, r, skip) ==
    IF r >= Len(data) THEN st
    ELSE RadialLoopFrom(
            IF r \in skip THEN st
            ELSE RadialBody(st, data, r, data[1].latitude, data[1].longitude),
            data, r + 1, skip)

\* the loop state a freshly constructed view ends the loop with, the radials
\* of `skip` left out
FreshLoop(data, skip) ==
    RadialLoopFrom([v |-> Resize(<<>>, VertexCapacity(data), Zero),
                    m |-> Resize(<<>>, MomentCapacity(data), 0),
                    vIndex |-> 0, mIndex |-> 0, overflow |-> FALSE, bins |-> <<>>,
                    misread |-> FALSE],
                   data, 0, skip)

\* the buffers a freshly constructed view holds after ComputeSweep on data
FreshSweep(data) ==
    LET st == FreshLoop(data, {})
        m == SubSeq(st.m, 1, st.mIndex)
    IN  [vertices |-> SubSeq(st.v, 1, st.vIndex),
         m8 |-> IF data[1].moment.data_word_size = 8 THEN m ELSE <<>>,
         m16 |-> IF data[1].moment.data_word_size = 8 THEN <<>> ELSE m]

\* the raw-value buffer of the sweep's word size
RawValues ==
    IF momentDataBlock0_.data_word_size = 8 THEN dataMoments8_ ELSE dataMoments16_

\* ComputeSweep has returned
Returned == pc = "idle" /\ op = "ComputeSweep"

\* the bins of a loop state with what each stored
BinContents(v, m, log) ==
    [j \in 1..Len(log) |->
        [radial |-> log[j].radial, gate |-> log[j].gate, sample |-> log[j].sample,
         verts |-> SubSeq(v, log[j].vAt + 1, log[j].vAt + log[j].vLen),
         raws |-> SubSeq(m, log[j].mAt + 1, log[j].mAt + log[j].mLen)]]


(***************************************************************************)
(* Properties                                                              *)
(***************************************************************************)
\* what GetMomentData() returned for the buffers held before the operation
PrevMomentData ==
    IF Len(prev.m8) > 0 THEN [data |-> prev.m8, componentSize |-> 1]
    ELSE [data |-> prev.m16, componentSize |-> 2]

\* what GetMomentData() returns for the buffers of a complete sweep
MomentDataOf(sweep) ==
    IF Len(sweep.m8) > 0 THEN [data |-> sweep.m8, componentSize |-> 1]
    ELSE [data |-> sweep.m16, componentSize |-> 2]

\* C1: a rendering consumer that reads vertices() and GetMomentData() while
\* ComputeSweep runs sees the complete previous sweep or the complete new
\* sweep, never a cleared, partly written or not yet truncated buffer.
C1_ReaderSeesCompleteSweep ==
    obs.present =>
        \/ /\ obs.vertices = prev.vertices
           /\ obs.moments = PrevMomentData
        \/ /\ Synthesizes(product_, radarData)
           /\ obs.vertices = FreshSweep(radarData).vertices
           /\ obs.moments = MomentDataOf(FreshSweep(radarData))

\* C2: a ComputeSweep that is a no-op (no data block mapping, no radials, no
\* moment block in the first radial) leaves vertices, raw values, origin,
\* sweep time and colour table LUT as they were and emits no signal.
C2_NoOpRetainsSweep ==
    (Returned /\ NoOpInput(product_, radarData)) =>
        (Held = prev /\ signals = <<>>)

\* a no-op run for a first radial without moment block, while the view holds
\* a sweep and a lookup table
C2_Witness ==
    /\ Returned
    /\ Len(radarData) > 0
    /\ product_ \in MappedProducts
    /\ ~radarData[1].moment.present
    /\ Len(prev.vertices) > 0
    /\ Len(prev.lut) > 0

\* C3: after a ComputeSweep that ran the synthesis loop the vertex buffer has
\* an even length of at most radials x gates x 6 x 2, the raw-value buffer has
\* half that length, and no store of the loop went past the end of a buffer.
C3_BufferBounds ==
    /\ ~overflow
    /\ (Returned /\ Synthesizes(product_, radarData)) =>
          /\ Len(vertices_) % 2 = 0
          /\ Len(vertices_) <=
                Len(radarData) * radarData[1].moment.number_of_data_moment_gates
                    * 6 * 2
          /\ Len(RawValues) * 2 = Len(vertices_)

\* a sweep whose second radial has more gates than the first and that fills
\* the buffers to their allocated size
C3_Witness ==
    /\ Returned
    /\ Synthesizes(product_, radarData)
    /\ Len(radarData) > 1
    /\ radarData[2].moment.number_of_data_moment_gates >
          radarData[1].moment.number_of_data_moment_gates
    /\ Len(vertices_) = VertexCapacity(radarData)
    /\ Len(vertices_) > 0

\* round(snrThresholdRaw * scale / 10 + offset) of a moment block
RoundedThreshold(mb) ==
    LRoundDiv(mb.snr_threshold_raw * mb.scale + 10 * mb.offset, 10)

\* C4 as stated: every raw value of the output is at least the threshold
\* computed from the record of the radial the value came from.
C4_OwnRadialThreshold ==
    (Returned /\ Synthesizes(product_, radarData)) =>
        \A j \in 1..Len(bins) :
            \A k \in (bins[j].mAt + 1)..(bins[j].mAt + bins[j].mLen) :
                RawValues[k] >= RoundedThreshold(radarData[bins[j].radial + 1].moment)

\* C4 as amended: every raw value of the output is at least the threshold
\* computed once, as a 16-bit unsigned value, from the record of the first
\* radial of the sweep.
C4_FirstRadialThreshold ==
    (Returned /\ Synthesizes(product_, radarData)) =>
        \A k \in 1..Len(RawValues) :
            RawValues[k] >= RoundedThreshold(radarData[1].moment) % 65536

\* a sweep whose radials have different thresholds of their own, with output
\* from the second radial
C4_Witness ==
    /\ Returned
    /\ Synthesizes(product_, radarData)
    /\ Len(radarData) > 1
    /\ RoundedThreshold(radarData[2].moment) # RoundedThreshold(radarData[1].moment)
    /\ \E j \in 1..Len(bins) : bins[j].radial = 1

\* C5: a rendered bin at gate 0 (start gate 0, first step of the radial) stores
\* 3 vertices, the first being the sweep origin, and 3 raw values; every other
\* rendered bin stores 6 vertices and 6 raw values; all raw values of a bin
\* equal the sample of that bin; the buffers hold the bins and nothing else.
C5_BinShape ==
    (Returned /\ Synthesizes(product_, radarData)) =>
        /\ \A j \in 1..Len(bins) :
            LET b == bins[j]
                mb == radarData[b.radial + 1].moment
            IN  /\ b.sample = mb.data_moments[b.i + 1]
                /\ b.vAt = (IF j = 1 THEN 0 ELSE bins[j - 1].vAt + bins[j - 1].vLen)
                /\ b.mAt = (IF j = 1 THEN 0 ELSE bins[j - 1].mAt + bins[j - 1].mLen)
                /\ IF b.gate = 0
                   THEN /\ StartGateOf(mb) = 0 /\ b.i = 0
                        /\ b.vLen = 3 * 2 /\ b.mLen = 3
                        /\ vertices_[b.vAt + 1] = <<"lat", radarData[1].latitude>>
                        /\ vertices_[b.vAt + 2] = <<"lon", radarData[1].longitude>>
                   ELSE b.vLen = 6 * 2 /\ b.mLen = 6
                /\ \A k \in (b.mAt + 1)..(b.mAt + b.mLen) : RawValues[k] = b.sample
        /\ Len(vertices_) =
              (IF bins = <<>> THEN 0 ELSE bins[Len(bins)].vAt + bins[Len(bins)].vLen)
        /\ Len(RawValues) =
              (IF bins = <<>> THEN 0 ELSE bins[Len(bins)].mAt + bins[Len(bins)].mLen)

\* a sweep with a rendered bin at gate 0 and a rendered bin beyond it
C5_Witness ==
    /\ Returned
    /\ Synthesizes(product_, radarData)
    /\ \E j \in 1..Len(bins) : bins[j].gate = 0
    /\ \E j \in 1..Len(bins) : bins[j].gate > 0


\* the radials after the first whose word size differs from the first radial's
Mismatched(data) ==
    {r \in 1..(Len(data) - 1) :
        data[r + 1].moment.data_word_size # data[1].moment.data_word_size}

\* data with the word size of every radial set to the first radial's
WordSizeMatched(data) ==
    [r \in 1..Len(data) |->
        [data[r] EXCEPT !.moment.data_word_size = data[1].moment.data_word_size]]

\* C6: in a sweep where one radial after the first has another word size than
\* the first, that radial contributes nothing and every other radial
\* contributes the bins (same coordinates, same raw values, same order) it
\* contributes when the word size of that radial matches; the run is not
\* aborted.
C6_WordSizeIsolation ==
    (Returned /\ Synthesizes(product_, radarData)
              /\ Cardinality(Mismatched(radarData)) = 1) =>
        LET same == FreshLoop(WordSizeMatched(radarData), {})
            others == SelectSeq(BinContents(same.v, same.m, same.bins),
                                LAMBDA b : b.radial \notin Mismatched(radarData))
        IN  /\ BinContents(vertices_, RawValues, bins) = others
            /\ \A j \in 1..Len(bins) : bins[j].radial \notin Mismatched(radarData)
            /\ Len(vertices_) =
                  (IF bins = <<>> THEN 0
                   ELSE bins[Len(bins)].vAt + bins[Len(bins)].vLen)
            /\ Len(RawValues) =
                  (IF bins = <<>> THEN 0
                   ELSE bins[Len(bins)].mAt + bins[Len(bins)].mLen)
            /\ signals # <<>>
            /\ signals[1] = "SweepComputed"

\* a sweep whose second radial has another word size than the first and would
\* render a bin if it had the same
C6_Witness ==
    /\ Returned
    /\ Synthesizes(product_, radarData)
    /\ Mismatched(radarData) = {1}
    /\ Len(bins) > 0
    /\ Len(FreshLoop(WordSizeMatched(radarData), {}).bins) > Len(bins)

\* C7: the buffers after a ComputeSweep that synthesizes depend on the radial
\* sequence and the coordinate table only: whatever the view held before
\* (buffers of either word size, the result of the same input included), they
\* are the buffers a freshly constructed view gets from the same input.
C7_FunctionOfInput ==
    (Returned /\ Synthesizes(product_, radarData)) =>
        LET fresh == FreshSweep(radarData)
        IN  /\ vertices_ = fresh.vertices
            /\ dataMoments8_ = fresh.m8
            /\ dataMoments16_ = fresh.m16

\* a run on a view that held a longer sweep of the same word size with other
\* raw values
C7_Witness ==
    /\ Returned
    /\ Synthesizes(product_, radarData)
    /\ Len(dataMoments8_) > 0
    /\ Len(prev.m8) > Len(dataMoments8_)
    /\ Len(prev.vertices) > Len(vertices_)
    /\ prev.m8[Len(prev.m8)] # dataMoments8_[Len(dataMoments8_)]

\* a step that runs UpdateColorTable: LoadColorTable, or the end of ComputeSweep
CallsUpdateColorTable == (pc = "idle" /\ pc' = "idle") \/ pc = "lut"

\* the key of the call equals the key of the last successful build
KeyUnchanged ==
    /\ momentDataBlock0_.present
    /\ savedColorTable_.present
    /\ colorTable_' = savedColorTable_
    /\ savedOffset_ = <<momentDataBlock0_.offset>>
    /\ savedScale_ = <<momentDataBlock0_.scale>>

\* the number of ColorTableUpdated signals in a sequence of signals
Updates(sig) == Len(SelectSeq(sig, LAMBDA x : x = "ColorTableUpdated"))

\* C8: when UpdateColorTable runs with the (colour table instance, scale,
\* offset) of the last successful build, the lookup table is left as it is and
\* no ColorTableUpdated is emitted, in every such call of LoadColorTable or
\* ComputeSweep.
C8_CacheHit ==
    [][(CallsUpdateColorTable /\ KeyUnchanged) =>
          /\ colorTableLut_' = colorTableLut_
          /\ savedColorTable_' = savedColorTable_
          /\ Updates(signals') = (IF pc = "lut" THEN Updates(signals) ELSE 0)]_vars

\* a ComputeSweep that ended with the key of the lookup table it found
C8_Witness ==
    /\ Returned
    /\ Synthesizes(product_, radarData)
    /\ Len(colorTableLut_) > 0
    /\ colorTable_ = savedColorTable_
    /\ savedOffset_ = <<momentDataBlock0_.offset>>
    /\ savedScale_ = <<momentDataBlock0_.scale>>
    /\ prev.lut = colorTableLut_
    /\ signals = <<"SweepComputed">>

\* a component of the key of the call differs from the last successful build
KeyChanged ==
    /\ momentDataBlock0_.present
    /\ colorTable_'.present
    /\ colorTable_'.valid
    /\ \/ colorTable_' # savedColorTable_
       \/ savedOffset_ # <<momentDataBlock0_.offset>>
       \/ savedScale_ # <<momentDataBlock0_.scale>>

\* C9: when a component of the key (colour table instance, scale, offset)
\* differs from the last successful build, the table is valid and a reference
\* radial exists, UpdateColorTable rebuilds the lookup table from the new key,
\* records the key and emits ColorTableUpdated once.
C9_CacheMiss ==
    [][(CallsUpdateColorTable /\ KeyChanged) =>
          /\ savedColorTable_' = colorTable_'
          /\ savedOffset_' = <<momentDataBlock0_.offset>>
          /\ savedScale_' = <<momentDataBlock0_.scale>>
          /\ Updates(signals') = (IF pc = "lut" THEN Updates(signals) ELSE 0) + 1
          /\ Len(colorTableLut_') = RangeMax(product_) - RangeMin(product_) + 1
          /\ \A i \in DataRange(product_) :
                colorTableLut_'[i - RangeMin(product_) + 1] =
                    Color(colorTable_', PhysicalValue(i, momentDataBlock0_.offset,
                                                      momentDataBlock0_.scale))]_vars

\* LoadColorTable of another instance with the colours of the table the lookup
\* table was built from: the key is recorded and the signal emitted
C9_Witness ==
    /\ pc = "idle"
    /\ op = "LoadColorTable"
    /\ Len(prev.lut) > 0
    /\ prev.lut = colorTableLut_
    /\ savedColorTable_ = colorTable_
    /\ signals = <<"ColorTableUpdated">>

\* C10: after a rebuild, for every raw index i of the closed range
\* rangeMin..rangeMax, lut[i - rangeMin] is the colour of (i - offset) / scale
\* in the table of the key; no entry is left at a default or stale value.
C10_ClosedRangeFilled ==
    savedColorTable_.present =>
        \A i \in RangeMin(product_)..RangeMax(product_) :
            colorTableLut_[i - RangeMin(product_) + 1] =
                Color(savedColorTable_,
                      PhysicalValue(i, savedOffset_[1], savedScale_[1]))

\* C11: once the lookup table has been rebuilt it has rangeMax - rangeMin + 1
\* entries for the product of the view: 1057 for differential reflectivity,
\* 1022 for differential phase, 74 for clutter filter power removed and 254 for
\* reflectivity and every other product, whatever radial data and colour table
\* the rebuilds used.
C11_LutLength ==
    savedColorTable_.present =>
        Len(colorTableLut_) =
            CASE product_ = "DifferentialReflectivity" -> 1057
              [] product_ = "DifferentialPhase" -> 1022
              [] product_ = "ClutterFilterPowerRemoved" -> 74
              [] OTHER -> 254

\* a differential reflectivity view whose lookup table was rebuilt by a
\* ComputeSweep on radials of another calibration
C11_Witness ==
    /\ Returned
    /\ product_ = "DifferentialReflectivity"
    /\ Len(prev.lut) = 1057
    /\ Len(colorTableLut_) = 1057
    /\ prev.lut # colorTableLut_
    /\ signals = <<"SweepComputed", "ColorTableUpdated">>

\* the call has no key to build from: no reference radial, or the colour
\* table loaded is null or not valid
NoUsableKey ==
    \/ ~momentDataBlock0_.present
    \/ ~colorTable_'.present
    \/ ~colorTable_'.valid

\* C12: while the colour table loaded is null or not valid, or the view has no
\* reference radial, every step of LoadColorTable and of ComputeSweep leaves
\* the lookup table and its saved key as they are and emits no
\* ColorTableUpdated, and color_table() keeps returning what it returned.
C12_StaleLutKept ==
    [][((CallsUpdateColorTable \/ pc \in {"compute", "loop"}) /\ NoUsableKey) =>
          /\ colorTableLut_' = colorTableLut_
          /\ savedColorTable_' = savedColorTable_
          /\ savedOffset_' = savedOffset_
          /\ savedScale_' = savedScale_
          /\ Updates(signals') = 0
          /\ color_table' = color_table]_vars

\* LoadColorTable of a colour table that is not valid on a view that holds a
\* lookup table built from another table
C12_Witness ==
    /\ pc = "idle"
    /\ op = "LoadColorTable"
    /\ momentDataBlock0_.present
    /\ colorTable_.present
    /\ ~colorTable_.valid
    /\ savedColorTable_.present
    /\ savedColorTable_ # colorTable_
    /\ Len(colorTableLut_) > 0
    /\ prev.lut = colorTableLut_
    /\ signals = <<>>

\* C13: ComputeSweep never faults, whatever the radial sequence: not on a
\* radial after the first that has no moment block for the product, not on a
\* first radial without volume block, and no store goes outside a buffer.
C13_NoFault == pc # "fault" /\ ~overflow

\* the builds of the view that are under way
InFlight == IF pc \in {"compute", "loop", "lut"} THEN 1 ELSE 0

\* C14: whatever new-data signals arrive, at most one ComputeSweep is under
\* way, and while one is under way at most one further invocation waits for
\* it: signals that arrive during a build are merged into one retrigger.
C14_OneInFlightOnePending ==
    /\ InFlight <= 1
    /\ InFlight = 1 => pending <= 1

\* the lookup table is the one UpdateColorTable builds for colour table ct and
\* the calibration of moment block mb: every raw index the loop visits holds
\* the colour of its physical value
BuiltFor(lut, ct, mb) ==
    /\ Len(lut) = RangeMax(product_) - RangeMin(product_) + 1
    /\ \A i \in DataRange(product_) :
          lut[i - RangeMin(product_) + 1] =
              Color(ct, PhysicalValue(i, mb.offset, mb.scale))

\* what color_table() returned is the table of the base class or a lookup
\* table built as a whole for one colour table and one calibration
WholeLut(lut) ==
    \/ lut = BaseColorTable
    \/ \E ct \in ColorTables, d \in RaceInputs : BuiltFor(lut, ct, d[1].moment)

\* the lookup table is the one built for the saved key
LutMatchesSavedKey ==
    /\ savedOffset_ # Indeterminate
    /\ savedScale_ # Indeterminate
    /\ BuiltFor(colorTableLut_, savedColorTable_,
                [offset |-> savedOffset_[1], scale |-> savedScale_[1]])

\* a reader of color_table() got a whole lookup table
ReaderSeesWholeLut == (obs.present /\ "lut" \in DOMAIN obs) => WholeLut(obs.lut)

\* at rest the lookup table is the one built for the saved key
KeyMatchesLut == (pc = "idle" /\ savedColorTable_.present) => LutMatchesSavedKey

\* C15: with color_table() and LoadColorTable called while ComputeSweep is
\* inside UpdateColorTable, a reader never gets a lookup table that is resized
\* but only partly refilled, and once the calls have returned the lookup table
\* is the one built for the saved (colour table, scale, offset) key.
C15_LutSafeUnderConcurrency == ReaderSeesWholeLut /\ KeyMatchesLut

\* C16: after a ComputeSweep that synthesizes, GetMomentData returns the raw
\* values of that sweep with a component size of its word size / 8 (1 for
\* 8-bit, 2 for 16-bit) and the buffer of the other width is empty, also when
\* every bin of the sweep was filtered out and the values are empty.
C16_WidthOfLastSweep ==
    (Returned /\ Synthesizes(product_, radarData)) =>
        /\ GetMomentData.data = RawValues
        /\ GetMomentData.componentSize = momentDataBlock0_.data_word_size \div 8
        /\ (momentDataBlock0_.data_word_size = 8 => dataMoments16_ = <<>>)
        /\ (momentDataBlock0_.data_word_size = 16 => dataMoments8_ = <<>>)

\* C17: after a ComputeSweep that synthesizes while a valid colour table is
\* loaded, the saved key is (the colour table loaded, scale and offset of the
\* first radial of that sweep) and the lookup table is the one UpdateColorTable
\* builds for that key, whatever key the view held before.
C17_LutKeyedToSweep ==
    (Returned /\ Synthesizes(product_, radarData)
        /\ colorTable_.present /\ colorTable_.valid) =>
        /\ savedColorTable_ = colorTable_
        /\ savedScale_ = <<radarData[1].moment.scale>>
        /\ savedOffset_ = <<radarData[1].moment.offset>>
        /\ colorTableLut_ = BuildLut(<<>>, colorTable_, radarData[1].moment.offset,
                                    radarData[1].moment.scale, product_)

\* a ComputeSweep on radials of another scale than the lookup table it found
\* was built for
C17_Witness ==
    /\ Returned
    /\ Synthesizes(product_, radarData)
    /\ colorTable_.present
    /\ colorTable_.valid
    /\ Len(prev.lut) > 0
    /\ prev.lut # colorTableLut_
    /\ savedScale_ = <<2>>
    /\ signals = <<"SweepComputed", "ColorTableUpdated">>

\* the number of SweepComputed signals in a sequence of signals
Sweeps(sig) == Len(SelectSeq(sig, LAMBDA x : x = "SweepComputed"))

\* C18: a ComputeSweep that synthesizes emits SweepComputed once; from the
\* moment the signal is out both buffers are the finished, truncated buffers
\* of the sweep, and a ColorTableUpdated of the run comes after SweepComputed,
\* never before it.
C18_SignalOrder ==
    op = "ComputeSweep" =>
        /\ Sweeps(signals) <= 1
        /\ (Returned /\ Synthesizes(product_, radarData)) => Sweeps(signals) = 1
        /\ signals # <<>> =>
              /\ signals[1] = "SweepComputed"
              /\ \A k \in 2..Len(signals) : signals[k] = "ColorTableUpdated"
              /\ Updates(signals) <= 1
              /\ Len(vertices_) = vIndex
              /\ Len(RawValues) = mIndex
              /\ vertices_ = FreshSweep(radarData).vertices
              /\ dataMoments8_ = FreshSweep(radarData).m8
              /\ dataMoments16_ = FreshSweep(radarData).m16

\* a ComputeSweep that rendered bins and rebuilt the lookup table
C18_Witness ==
    /\ Returned
    /\ Len(vertices_) > 0
    /\ Len(vertices_) < VertexCapacity(radarData)
    /\ signals = <<"SweepComputed", "ColorTableUpdated">>

\* the radial slots of a coordinate table: 720 in the half-degree table, 360 in
\* the one-degree table
TableSlots(table) == IF table = "c05" THEN 720 ELSE 360

\* the radial slot a coordinate table offset lies in
SlotOf(off) == off \div (MAX_DATA_MOMENT_GATES * 2)

\* C19: every vertex taken from a coordinate table is read from a radial slot
\* of the table the sweep was given: the slot index is below 720 in the
\* half-degree table and below 360 in the one-degree table.
C19_SlotsInsideTable ==
    \A k \in 1..Len(vertices_) :
        vertices_[k][1] \in {"c05", "c10"} =>
            SlotOf(vertices_[k][2]) < TableSlots(vertices_[k][1])

\* the vertex buffer holds vertices of the sweep of radarData
HoldsSweepOfInput ==
    \/ pc \in {"loop", "lut"}
    \/ Returned /\ Synthesizes(product_, radarData)

\* C20: the vertices of a sweep come from the half-degree table exactly when
\* its first radial has half-degree spacing (radialMultiplier 2), and from the
\* one-degree table otherwise, however many radials the sweep has.
C20_TableMatchesSpacing ==
    HoldsSweepOfInput =>
        \A k \in 1..Len(vertices_) :
            vertices_[k][1] \in {"c05", "c10"} =>
                (vertices_[k][1] = "c05" <=> RadialMultiplier(radarData[1]) = 2)

\* whether the bin that starts at gate g is one of the bins to visit: the whole
\* bin lies before endGate (whole), or its start does
ToVisit(g, gateSize, endGate, whole) ==
    IF whole THEN g + gateSize <= endGate ELSE g < endGate

\* the bins radial r (0-based) of data is to render, in the order of their
\* sample index: [gate, i, sample] for every sample index k whose gate
\* startGate + k * gateSize is to be visited and whose sample passes the threshold
BinsToRender(data, r, whole) ==
    LET mb == data[r + 1].moment
        mb0 == data[1].moment
        gs == GateSizeOf(mb)
        ks == {k \in 0..(Len(mb.data_moments) - 1) :
                 /\ ToVisit(StartGateOf(mb) + k * gs, gs,
                            EndGateOf(mb, mb0.number_of_data_moment_gates), whole)
                 /\ mb.data_moments[k + 1] >= SnrThresholdOf(mb0)}
    IN  IF WordSizeDiffers(mb0, mb) THEN <<>>
        ELSE [j \in 1..Cardinality(ks) |->
                LET k == CHOOSE x \in ks : Cardinality({y \in ks : y < x}) = j - 1
                IN  [gate |-> StartGateOf(mb) + k * gs, i |-> k,
                     sample |-> mb.data_moments[k + 1]]]

\* the bins the run rendered for radial r, in the order it rendered them
BinsRendered(r) ==
    LET log == SelectSeq(bins, LAMBDA b : b.radial = r)
    IN  [j \in 1..Len(log) |->
            [gate |-> log[j].gate, i |-> log[j].i, sample |-> log[j].sample]]

\* the bins lie in both buffers in the order they were rendered, one after
\* the other, radial by radial
RadialThenGateOrder ==
    /\ bins # <<>> => bins[1].vAt = 0 /\ bins[1].mAt = 0
    /\ \A j \in 1..(Len(bins) - 1) :
          /\ bins[j].radial <= bins[j + 1].radial
          /\ bins[j + 1].vAt = bins[j].vAt + bins[j].vLen
          /\ bins[j + 1].mAt = bins[j].mAt + bins[j].mLen

\* C21 as stated: the bins of a radial are the gates g = startGate + k *
\* gateSize with g < endGate, the k-th bin reading the k-th sample, and the
\* bins lie in the buffers radial by radial, gate by gate.
C21_VisitsGatesBelowEnd ==
    HoldsSweepOfInput =>
        /\ RadialThenGateOrder
        /\ \A r \in 0..(radial - 1) : BinsRendered(r) = BinsToRender(radarData, r, FALSE)

\* C21 amended: the bins of a radial are the gates g = startGate + k * gateSize
\* with g + gateSize <= endGate (a bin that would reach past endGate is not
\* visited), the k-th bin reading the k-th sample, and the bins lie in the
\* buffers radial by radial, gate by gate.
C21_VisitsWholeBins ==
    HoldsSweepOfInput =>
        /\ RadialThenGateOrder
        /\ \A r \in 0..(radial - 1) : BinsRendered(r) = BinsToRender(radarData, r, TRUE)

\* a sweep whose second radial has a last bin that starts before endGate and
\* would end past it, behind a radial that rendered a bin
C21_Witness ==
    /\ Returned
    /\ Synthesizes(product_, radarData)
    /\ Len(radarData) = 2
    /\ Len(BinsRendered(0)) > 0
    /\ Len(BinsRendered(1)) > 0
    /\ BinsToRender(radarData, 1, FALSE) # BinsToRender(radarData, 1, TRUE)

\* latitude and longitude of gate edge g of radial slot `slot` in a coordinate
\* table: MAX_DATA_MOMENT_GATES pairs for each slot
TableCoordinates(table, slot, g) ==
    << <<table, (slot * MAX_DATA_MOMENT_GATES + g) * 2>>,
       <<table, (slot * MAX_DATA_MOMENT_GATES + g) * 2 + 1>> >>

\* the corner <<radial slots past slot r, gate edge>> a stored table
\* coordinate stands for
Corner(v, r) ==
    LET pair == v[2] \div 2
    IN  <<((pair \div MAX_DATA_MOMENT_GATES) - r) % MAX_RADIALS,
          pair % MAX_DATA_MOMENT_GATES>>

\* twice the signed area of the triangle a, b, c: its sign is the winding
Cross(a, b, c) ==
    (b[1] - a[1]) * (c[2] - a[2]) - (b[2] - a[2]) * (c[1] - a[1])

\* the six corners bin b stored, in the order it stored them
CornersOf(b) ==
    LET r == (StartRadial(radarData[1]) + b.radial) % MAX_RADIALS
    IN  [k \in 1..6 |-> Corner(vertices_[b.vAt + 2 * k - 1], r)]

\* the vertices of every rendered bin with gate > 0 at radial slot r, next
\* slot r', are the table coordinates of (r, gate-1), (r, gate+gateSize-1),
\* (r', gate-1), (r', gate-1), (r', gate+gateSize-1), (r, gate+gateSize-1) in
\* this order, and gate+gateSize-1 is at most the last gate of a table row
SixVerticesInOrder ==
    \A j \in 1..Len(bins) :
        LET b == bins[j]
            t == CoordinateTableOf(radarData)
            gs == GateSizeOf(radarData[b.radial + 1].moment)
            r == (StartRadial(radarData[1]) + b.radial) % MAX_RADIALS
            rNext == (StartRadial(radarData[1]) + b.radial + 1) % MAX_RADIALS
            near == b.gate - 1
            far == b.gate + gs - 1
        IN  b.gate > 0 =>
              /\ far <= MAX_DATA_MOMENT_GATES - 1
              /\ SubSeq(vertices_, b.vAt + 1, b.vAt + b.vLen) =
                    TableCoordinates(t, r, near) \o TableCoordinates(t, r, far)
                      \o TableCoordinates(t, rNext, near)
                      \o TableCoordinates(t, rNext, near)
                      \o TableCoordinates(t, rNext, far)
                      \o TableCoordinates(t, r, far)

\* C22 as stated: the six vertices of a bin with gate > 0 are stored in the
\* order above, inside the table row, and the two triangles they make have the
\* same winding.
C22_SameWinding ==
    (Returned /\ Synthesizes(product_, radarData)) =>
        /\ SixVerticesInOrder
        /\ \A j \in 1..Len(bins) :
              bins[j].gate > 0 =>
                  LET c == CornersOf(bins[j])
                  IN  Cross(c[1], c[2], c[3]) * Cross(c[4], c[5], c[6]) > 0

\* C22 amended: the six vertices of a bin with gate > 0 are stored in the
\* order above, inside the table row; the two triangles they make share the
\* diagonal and are wound in opposite directions.
C22_TwoTriangles ==
    (Returned /\ Synthesizes(product_, radarData)) =>
        /\ SixVerticesInOrder
        /\ \A j \in 1..Len(bins) :
              bins[j].gate > 0 =>
                  LET c == CornersOf(bins[j])
                  IN  /\ Cross(c[1], c[2], c[3]) * Cross(c[4], c[5], c[6]) < 0
                      /\ {c[2], c[3]} = {c[4], c[6]}

\* a sweep of two radials with a bin of several gates whose next radial slot
\* differs from its own
C22_Witness ==
    /\ Returned
    /\ Synthesizes(product_, radarData)
    /\ \E j \in 1..Len(bins) :
          /\ bins[j].radial = 1
          /\ bins[j].gate > 1
          /\ GateSizeOf(radarData[2].moment) > 1
          /\ bins[j].gate + GateSizeOf(radarData[2].moment) > 1700

\* gateSize, startGate and endGate of a radial in unbounded integers
ExactGateSize(mb) == Max(1, CDiv(mb.data_moment_range_sample_interval_raw, GateUnit))
ExactStartGate(mb) ==
    CDiv(mb.data_moment_range_raw - CDiv(mb.data_moment_range_sample_interval_raw, 2),
         GateUnit)
ExactEndGate(mb, gates) ==
    Min(ExactStartGate(mb) + Min(mb.number_of_data_moment_gates, gates) * ExactGateSize(mb),
        MAX_DATA_MOMENT_GATES)

\* the sample indices of the bins a radial visits with the exact values
ExactVisited(mb, gates) ==
    {k \in 0..(Len(mb.data_moments) - 1) :
        ExactStartGate(mb) + (k + 1) * ExactGateSize(mb) <= ExactEndGate(mb, gates)}

\* the sample indices of the bins a radial visits with the values of the loop
LoopVisited(mb, gates) ==
    {k \in 0..(Len(mb.data_moments) - 1) :
        GateInRange(StartGateOf(mb) + k * GateSizeOf(mb), GateSizeOf(mb),
                    EndGateOf(mb, gates))}

\* C23: for every radial of a sweep the 16-bit gateSize, startGate and endGate
\* of the loop equal the values computed in unbounded integers, the loop
\* visits the bins those values give, and endGate is at most
\* MAX_DATA_MOMENT_GATES.
C23_ExactGateValues ==
    HoldsSweepOfInput =>
        \A r \in 1..Len(radarData) :
            LET mb == radarData[r].moment
                gates == radarData[1].moment.number_of_data_moment_gates
            IN  mb.present =>
                  /\ GateSizeOf(mb) = ExactGateSize(mb)
                  /\ StartGateOf(mb) = ExactStartGate(mb)
                  /\ EndGateOf(mb, gates) = ExactEndGate(mb, gates)
                  /\ EndGateOf(mb, gates) <= MAX_DATA_MOMENT_GATES
                  /\ LoopVisited(mb, gates) = ExactVisited(mb, gates)

\* the synthesis of malformed radial sequences, where a run that has a step to
\* take takes it: ComputeSweep is straight-line code on one thread
SpecEdgeFair ==
    InitView({"Reflectivity"}) /\ [][NextEdge]_vars /\ WF_vars(ComputeSweepStep)

\* C24: every ComputeSweep run terminates and returns the view to Idle,
\* whether it succeeds or is a no-op; the radial loop and the gate loop finish
\* and no run is cancelled mid-loop.
C24_RunReturnsToIdle == (pc = "compute") ~> (pc = "idle")


\* a ComputeSweep returns because the first radial has no moment block
AbortsOnMissingBlock ==
    /\ pc = "compute"
    /\ pc' = "idle"
    /\ Len(radarData) > 0
    /\ ~radarData[1].moment.present

\* LoadColorTable of a new valid table, after a lookup table was built from
\* the reference block of a successful sweep
LoadsNewTableAfterSweep ==
    /\ op' = "LoadColorTable"
    /\ pc = "idle"
    /\ savedColorTable_.present
    /\ colorTable_'.present
    /\ colorTable_'.valid
    /\ colorTable_' # savedColorTable_

\* C25: a ComputeSweep that aborts because the first radial has no moment
\* block leaves the reference moment block as it was after the last
\* successful sweep, so a LoadColorTable of a new valid table issued
\* afterwards still rebuilds the lookup table and emits ColorTableUpdated.
C25_AbortKeepsReferenceBlock ==
    [][/\ AbortsOnMissingBlock => momentDataBlock0_' = momentDataBlock0_
       /\ LoadsNewTableAfterSweep =>
            /\ savedColorTable_' = colorTable_'
            /\ signals' = <<"ColorTableUpdated">>]_vars


\* the gate count of radial r (0-based) of the sweep, and of the first radial
OwnGateCount(r) == radarData[r + 1].moment.number_of_data_moment_gates
FirstGateCount == radarData[1].moment.number_of_data_moment_gates

\* C26: for every radial that is not skipped, every sample index i read by the
\* gate loop is below the radial's own gate count, and at most
\* min(own gate count, first radial's gate count) samples are read, whatever
\* the gate counts, gate intervals and start gates of the radials of a sweep.
C26_ReadsOwnSamples ==
    /\ ~misread
    /\ \A j \in 1..Len(bins) :
          /\ bins[j].i < OwnGateCount(bins[j].radial)
          /\ bins[j].i < Min(OwnGateCount(bins[j].radial), FirstGateCount)

\* a finished sweep whose second radial has fewer gates than the first and is
\* read up to its own last sample
C26_Witness ==
    /\ Returned
    /\ Synthesizes(product_, radarData)
    /\ Len(radarData) = 2
    /\ OwnGateCount(1) < FirstGateCount
    /\ \E j \in 1..Len(bins) :
          bins[j].radial = 1 /\ bins[j].i = OwnGateCount(1) - 1


(***************************************************************************)
(* TimelineManager                                                         *)
(***************************************************************************)
\* the tasks in flight at one time, at most
MaxTasks == 2

Sites == {"A", "B"}
ViewTypes == {"Live", "Archive"}
\* the times a user picks: the second is not a whole number of minutes after
\* the first
DateTimes == {90, 93}
\* the volume times RadarProductManager knows, neither minute-aligned
VolumeTimes == {97, 99}

\* a task handed to scwx::util::async, or a timer handler handed to the
\* io_context: its code, its position, the time it was given or has computed
Task(kind, at, time) == [kind |-> kind, pc |-> at, time |-> time]
RemoveAt(s, i) == SubSeq(s, 1, i - 1) \o SubSeq(s, i + 1, Len(s))
AtPc(s, i, at) == [s EXCEPT ![i].pc = at]

Signal(name, time) == <<name, time>>

\* Impl::SelectTime(t) up to the hand-over to scwx::util::async, called with
\* radar site `site` selected; queue: the tasks in flight besides the new one;
\* date: the date and time the user asked for, if the call comes from
\* SetDateTime
SelectTime(t, site, queue, date) ==
    /\ requested' = date
    /\ call' = [present |-> TRUE, time |-> t, site |-> site]
    /\ callMade' = TRUE
    /\ UNCHANGED <<previousRadarSite_, selectTimeMutex_>>
    /\ IF selectedTime_ = t /\ site = previousRadarSite_
       THEN \* nothing to do
            /\ tasks' = queue
            /\ emitted' = <<>>
            /\ UNCHANGED <<selectedTime_, adjustedTime_, lastSelectedTimeUpdated>>
       ELSE IF t = DefaultTime
       THEN \* reset to a live view
            /\ selectedTime_' = t
            /\ adjustedTime_' = t
            /\ emitted' = <<Signal("VolumeTimeUpdated", t),
                            Signal("SelectedTimeUpdated", t)>>
            /\ lastSelectedTimeUpdated' = t
            /\ tasks' = queue
       ELSE /\ Len(queue) < MaxTasks
            /\ tasks' = Append(queue, Task("select", "start", t))
            /\ emitted' = <<>>
            /\ UNCHANGED <<selectedTime_, adjustedTime_, lastSelectedTimeUpdated>>

\* TimelineManager::SetRadarSite
SetRadarSite(site) ==
    /\ radarSite_ # site
    /\ radarSite_' = site
    /\ IF viewType_ = "Live" THEN SelectTime(DefaultTime, site, tasks, NoTime)
       ELSE SelectTime(selectedTime_, site, tasks, NoTime)
    /\ UNCHANGED <<pinnedTime_, viewType_, loopTime_, animationState_,
                   animationTimer_, now, playStep, paused>>
    /\ UNCHANGED <<viewVars, runVars>>

\* TimelineManager::SetDateTime
SetDateTime(dateTime) ==
    /\ pinnedTime_' = dateTime
    /\ IF viewType_ = "Archive" THEN SelectTime(dateTime, radarSite_, tasks, dateTime)
       ELSE /\ callMade' = FALSE
            /\ emitted' = <<>>
            /\ UNCHANGED <<previousRadarSite_, selectTimeMutex_, selectedTime_,
                           adjustedTime_, lastSelectedTimeUpdated, tasks,
                           requested, call>>
    /\ UNCHANGED <<radarSite_, viewType_, loopTime_, animationState_,
                   animationTimer_, now, playStep, paused>>
    /\ UNCHANGED <<viewVars, runVars>>

\* TimelineManager::SetViewType
SetViewType(viewType) ==
    /\ viewType_' = viewType
    /\ IF viewType = "Live" THEN SelectTime(DefaultTime, radarSite_, tasks, NoTime)
       ELSE SelectTime(pinnedTime_, radarSite_, tasks, NoTime)
    /\ UNCHANGED <<radarSite_, pinnedTime_, loopTime_, animationState_,
                   animationTimer_, now, playStep, paused>>
    /\ UNCHANGED <<viewVars, runVars>>

\* what a step of a task leaves alone
TaskStepFrame ==
    /\ callMade' = FALSE
    /\ UNCHANGED <<radarSite_, pinnedTime_, viewType_, loopTime_, now, requested,
                   call>>
    /\ UNCHANGED <<viewVars, runVars>>

\* the selection task takes selectTimeMutex_, asks for the active volume
\* times and takes the bounded element: an element of the set, or none
SelectTask_Lookup(i) ==
    /\ tasks[i].kind = "select"
    /\ tasks[i].pc = "start"
    /\ ~selectTimeMutex_
    /\ selectTimeMutex_' = TRUE
    /\ \E element \in VolumeTimes \cup {NoTime} :
          IF element # NoTime
             /\ (adjustedTime_ # element \/ radarSite_ # previousRadarSite_)
          THEN /\ adjustedTime_' = element
               /\ emitted' = <<Signal("VolumeTimeUpdated", element)>>
          ELSE /\ emitted' = <<>>
               /\ UNCHANGED adjustedTime_
    /\ tasks' = AtPc(tasks, i, "select")
    /\ UNCHANGED <<selectedTime_, previousRadarSite_, lastSelectedTimeUpdated,
                   animationState_, animationTimer_, playStep, paused>>
    /\ TaskStepFrame

\* the selection task stores the selected time and emits SelectedTimeUpdated
SelectTask_Select(i) ==
    /\ tasks[i].kind = "select"
    /\ tasks[i].pc = "select"
    /\ selectedTime_' = tasks[i].time
    /\ emitted' = <<Signal("SelectedTimeUpdated", tasks[i].time)>>
    /\ lastSelectedTimeUpdated' = tasks[i].time
    /\ tasks' = AtPc(tasks, i, "record")
    /\ UNCHANGED <<adjustedTime_, previousRadarSite_, selectTimeMutex_,
                   animationState_, animationTimer_, playStep, paused>>
    /\ TaskStepFrame

\* the selection task records the radar site and ends, releasing the mutex
SelectTask_Record(i) ==
    /\ tasks[i].kind = "select"
    /\ tasks[i].pc = "record"
    /\ previousRadarSite_' = radarSite_
    /\ selectTimeMutex_' = FALSE
    /\ tasks' = RemoveAt(tasks, i)
    /\ emitted' = <<>>
    /\ UNCHANGED <<adjustedTime_, selectedTime_, lastSelectedTimeUpdated,
                   animationState_, animationTimer_, playStep, paused>>
    /\ TaskStepFrame

\* a worker thread runs a step of a selection task
SelectTaskStep ==
    \E i \in 1..Len(tasks) :
        SelectTask_Lookup(i) \/ SelectTask_Select(i) \/ SelectTask_Record(i)

\* time selection: the setters on the main thread, the tasks on the workers
NextSelect ==
    \/ \E site \in Sites : SetRadarSite(site)
    \/ \E dateTime \in DateTimes : SetDateTime(dateTime)
    \/ \E viewType \in ViewTypes : SetViewType(viewType)
    \/ \E i \in 1..Len(tasks) : SelectTask_Lookup(i)
    \/ \E i \in 1..Len(tasks) : SelectTask_Select(i)
    \/ \E i \in 1..Len(tasks) : SelectTask_Record(i)

SpecSelect == InitView({"Reflectivity"}) /\ [][NextSelect]_vars

\* C27: when several time selections were requested one after another with
\* SetDateTime in archive view and every selection task has finished, the
\* selected time and the last SelectedTimeUpdated are the time requested
\* last, in whatever order the worker threads ran the tasks.
C27_LastRequestWins ==
    (tasks = <<>> /\ requested # NoTime) =>
        /\ selectedTime_ = requested
        /\ lastSelectedTimeUpdated = requested


\* the step is a second call of SelectTime with the time and the radar site
\* of the call before it, made when every selection before it has completed
SelectsSameTimeAgain ==
    /\ callMade'
    /\ call.present
    /\ tasks = <<>>
    /\ call'.time = call.time
    /\ call'.site = call.site

\* C28: selecting the same time twice with the radar site unchanged between
\* the two calls is deduplicated: the second SelectTime is a no-op and emits
\* neither VolumeTimeUpdated nor SelectedTimeUpdated, in live view (the
\* default time) as in archive view.
C28_SameTimeDeduplicated ==
    [][SelectsSameTimeAgain =>
          /\ emitted' = <<>>
          /\ tasks' = <<>>
          /\ UNCHANGED <<selectedTime_, adjustedTime_>>]_vars


\* the clock of the model stops here
MaxNow == 101

Directions == {"Back", "Next"}

\* std::chrono::floor<std::chrono::minutes>
FloorMinutes(t) == t - (t % Minute)

\* animationTimer_.cancel(): an outstanding wait ends with
\* operation_aborted, whose handler only logs
CancelTimer == "none"

\* Impl::Pause
Pause ==
    /\ animationTimer_' = CancelTimer
    /\ animationState_' = "Pause"
    /\ paused' = TRUE

\* Impl::Play up to the hand-over of the task; queue: the tasks in flight
\* besides the new one
Play(queue) ==
    /\ animationState_' = "Play"
    /\ animationTimer_' = CancelTimer
    /\ Len(queue) < MaxTasks
    /\ tasks' = Append(queue, Task("play", "start", NoTime))

\* what a call of the main thread that selects no time leaves alone
NoSelection ==
    /\ callMade' = FALSE
    /\ emitted' = <<>>
    /\ UNCHANGED <<radarSite_, previousRadarSite_, pinnedTime_, adjustedTime_,
                   selectedTime_, viewType_, loopTime_, selectTimeMutex_, now,
                   lastSelectedTimeUpdated, requested, call, playStep>>
    /\ UNCHANGED <<viewVars, runVars>>

\* TimelineManager::AnimationPlayPause
AnimationPlayPause ==
    /\ IF animationState_ = "Pause"
       THEN /\ Play(tasks)
            /\ paused' = FALSE
       ELSE /\ Pause
            /\ UNCHANGED tasks
    /\ NoSelection

\* TimelineManager::AnimationStepBack and AnimationStepNext: Pause, then Step
AnimationStep(direction) ==
    /\ Pause
    /\ Len(tasks) < MaxTasks
    /\ tasks' = Append(tasks, Task("step" \o direction, "start", NoTime))
    /\ NoSelection

\* the elements before and after element e of a set of times
Before(S, e) == {x \in S : x < e}
After(S, e) == {x \in S : x > e}
Greatest(S) == CHOOSE x \in S : \A y \in S : y <= x
Least(S) == CHOOSE x \in S : \A y \in S : x <= y

\* the task of Impl::Step, under selectTimeMutex_ from its first statement to
\* its last; it: the last element if the adjusted time is live, else the
\* bounded element of the adjusted time, an element of the set
StepTask(i) ==
    /\ tasks[i].kind \in {"stepBack", "stepNext"}
    /\ ~selectTimeMutex_
    /\ tasks' = RemoveAt(tasks, i)
    /\ \E volumeTimes \in {{}, VolumeTimes} :
          IF volumeTimes = {}
          THEN /\ emitted' = <<>>
               /\ UNCHANGED <<adjustedTime_, selectedTime_, lastSelectedTimeUpdated>>
          ELSE \E it \in (IF adjustedTime_ = DefaultTime
                          THEN {Greatest(volumeTimes)} ELSE volumeTimes) :
                  LET beyond == IF tasks[i].kind = "stepBack"
                                THEN Before(volumeTimes, it)
                                ELSE After(volumeTimes, it)
                      to == IF tasks[i].kind = "stepBack" THEN Greatest(beyond)
                            ELSE Least(beyond)
                  IN  IF beyond = {}
                      THEN /\ emitted' = <<>>
                           /\ UNCHANGED <<adjustedTime_, selectedTime_,
                                          lastSelectedTimeUpdated>>
                      ELSE /\ adjustedTime_' = to
                           /\ selectedTime_' = to
                           /\ emitted' = <<Signal("VolumeTimeUpdated", to),
                                           Signal("SelectedTimeUpdated", to)>>
                           /\ lastSelectedTimeUpdated' = to
    /\ UNCHANGED <<previousRadarSite_, selectTimeMutex_, animationState_,
                   animationTimer_, playStep, paused>>
    /\ TaskStepFrame

\* the loop window of a Play step and the time it selects
EndTime ==
    IF viewType_ = "Live" \/ pinnedTime_ = DefaultTime THEN FloorMinutes(now)
    ELSE pinnedTime_
StartTime == EndTime - loopTime_
NewTime(currentTime) ==
    IF currentTime < StartTime \/ currentTime >= EndTime THEN StartTime
    ELSE currentTime + Minute

\* the Play task computes the window and the new time under selectTimeMutex_
\* and calls SelectTime(newTime)
PlayTask_Select(i) ==
    /\ tasks[i].kind = "play"
    /\ tasks[i].pc = "start"
    /\ ~selectTimeMutex_
    /\ LET newTime == NewTime(selectedTime_)
       IN  /\ playStep' = [present |-> TRUE, startTime |-> StartTime,
                           endTime |-> EndTime, currentTime |-> selectedTime_,
                           newTime |-> newTime]
           /\ SelectTime(newTime, radarSite_,
                         [tasks EXCEPT ![i] = Task("play", "arm", newTime)], NoTime)
    /\ UNCHANGED <<radarSite_, pinnedTime_, viewType_, loopTime_, now,
                   animationState_, animationTimer_, paused>>
    /\ UNCHANGED <<viewVars, runVars>>

\* the Play task arms the animation timer and ends
PlayTask_Arm(i) ==
    /\ tasks[i].kind = "play"
    /\ tasks[i].pc = "arm"
    /\ animationTimer_' = "waiting"
    /\ tasks' = RemoveAt(tasks, i)
    /\ emitted' = <<>>
    /\ UNCHANGED <<adjustedTime_, selectedTime_, previousRadarSite_,
                   selectTimeMutex_, lastSelectedTimeUpdated, animationState_,
                   playStep, paused>>
    /\ TaskStepFrame

\* the animation timer expires: its handler is handed to a worker thread
TimerExpires ==
    /\ animationTimer_ = "waiting"
    /\ Len(tasks) < MaxTasks
    /\ animationTimer_' = "none"
    /\ tasks' = Append(tasks, Task("handler", "start", NoTime))
    /\ emitted' = <<>>
    /\ UNCHANGED <<adjustedTime_, selectedTime_, previousRadarSite_,
                   selectTimeMutex_, lastSelectedTimeUpdated, animationState_,
                   playStep, paused>>
    /\ TaskStepFrame

\* the handler tests the animation state
Handler_Test(i) ==
    /\ tasks[i].kind = "handler"
    /\ tasks[i].pc = "start"
    /\ tasks' = IF animationState_ = "Play" THEN AtPc(tasks, i, "play")
                ELSE RemoveAt(tasks, i)
    /\ emitted' = <<>>
    /\ UNCHANGED <<adjustedTime_, selectedTime_, previousRadarSite_,
                   selectTimeMutex_, lastSelectedTimeUpdated, animationState_,
                   animationTimer_, playStep, paused>>
    /\ TaskStepFrame

\* the handler calls Play()
Handler_Play(i) ==
    /\ tasks[i].kind = "handler"
    /\ tasks[i].pc = "play"
    /\ Play(RemoveAt(tasks, i))
    /\ emitted' = <<>>
    /\ UNCHANGED <<adjustedTime_, selectedTime_, previousRadarSite_,
                   selectTimeMutex_, lastSelectedTimeUpdated, playStep, paused>>
    /\ TaskStepFrame

\* the clock advances by half a minute
Tick ==
    /\ now < MaxNow
    /\ now' = now + 1
    /\ callMade' = FALSE
    /\ emitted' = <<>>
    /\ UNCHANGED <<radarSite_, previousRadarSite_, pinnedTime_, adjustedTime_,
                   selectedTime_, viewType_, loopTime_, animationState_,
                   animationTimer_, selectTimeMutex_, tasks,
                   lastSelectedTimeUpdated, requested, call, playStep, paused>>
    /\ UNCHANGED <<viewVars, runVars>>

\* the animation: the buttons on the main thread, the tasks and the timer
\* handler on the workers
NextPlay ==
    \/ AnimationPlayPause
    \/ \E direction \in Directions : AnimationStep(direction)
    \/ \E i \in 1..Len(tasks) : StepTask(i)
    \/ \E i \in 1..Len(tasks) : PlayTask_Select(i)
    \/ \E i \in 1..Len(tasks) : PlayTask_Arm(i)
    \/ \E i \in 1..Len(tasks) : SelectTask_Lookup(i)
    \/ \E i \in 1..Len(tasks) : SelectTask_Select(i)
    \/ \E i \in 1..Len(tasks) : SelectTask_Record(i)
    \/ TimerExpires
    \/ \E i \in 1..Len(tasks) : Handler_Test(i)
    \/ \E i \in 1..Len(tasks) : Handler_Play(i)
    \/ Tick

SpecPlay == InitView({"Reflectivity"}) /\ [][NextPlay]_vars

\* C29: every time selected by a Play step lies inside the loop window,
\* endTime - loopTime <= newTime <= endTime, whatever the selected time was
\* (minute-aligned or not); a selected time inside the window is advanced by
\* one minute and a time outside it restarts at the window start.
C29_PlayStaysInWindow ==
    playStep.present =>
        /\ playStep.startTime <= playStep.newTime
        /\ playStep.newTime <= playStep.endTime
        /\ IF /\ playStep.startTime <= playStep.currentTime
              /\ playStep.currentTime < playStep.endTime
           THEN playStep.newTime = playStep.currentTime + Minute
           ELSE playStep.newTime = playStep.startTime

\* C30: once Pause has set the animation state to Pause and the user does not
\* invoke Play again, playback stops: the timer handler does not call Play
\* and the animation state stays Pause, however Pause interleaves with a Play
\* task or a timer handler in flight.
C30_PauseStopsPlayback == paused => animationState_ = "Pause"
=============================================================================
